---- MODULE Spec2Model ----
(***************************************************************************)
(* A model of the pdf-doc crate: the document and paragraph values, the    *)
(* pagination of a document's elements (Doc::seg_pags), the resolution of  *)
(* paragraph attributes against the document (Doc::wrt_pag), the text      *)
(* substitution (Doc::replace_par_at) and the render (Doc::save_pdf).      *)
(*                                                                         *)
(* Representation of the Rust values:                                      *)
(*   Option<T>   None is <<>>, Some(v) is <<v>>                            *)
(*   In(x)       the integer 2*x (a length in half inches)                 *)
(*   f32 factors the integer 100*x (LineSpace::val, 1.35 is 135)           *)
(*   String      a sequence of one-character strings                       *)
(*   Vec<T>      a sequence; a usize index i is position i + 1             *)
(***************************************************************************)
EXTENDS Integers, Sequences, FiniteSets, TLC

VARIABLES doc, bld, hist, call, pc, pags, fnts, pdf, lay, loads, file,
          other, cpy, json

vars == <<doc, bld, hist, call, pc, pags, fnts, pdf, lay, loads, file,
          other, cpy, json>>

(***************************************************************************)
(* Bounds of the model.                                                    *)
(***************************************************************************)
\* Elements of a document in the pagination specification.
MaxElms == 5
\* Elements of a document in the attribute specification.
MaxAttrElms == 1
\* Setter calls on the paragraph being built and overrides set in the
\* paragraphs of the document, together.
MaxParSets == 2
\* Elements of a document in the text specification.
MaxTxtElms == 2
\* Characters of the texts of a document, all paragraphs together, in the
\* text specification.
MaxTxtLen == 3
\* Elements of a document in the copy specification.
MaxCopyElms == 2
\* Elements of a document in the render specification.
MaxRndElms == 4
\* Elements of a document in the persistence specification.
MaxJsonElms == 2

(***************************************************************************)
(* Option<T>.                                                              *)
(***************************************************************************)
None == <<>>

Some(v) == <<v>>

unwrap_or(o, d) == IF o = None THEN d ELSE o[1]

Opt(S) == {None} \cup {Some(v) : v \in S}

(***************************************************************************)
(* inch.rs, sze.rs, mrg.rs                                                 *)
(***************************************************************************)
PT_PER_IN == 72

\* In::pt: self.0 * PT_PER_IN, of a length held in half inches.
pt(in) == (in * PT_PER_IN) \div 2

ANSI_LETTER == [width |-> 17, height |-> 22]

MRG_IN_1 == [lft |-> 2, rht |-> 2, btm |-> 2, top |-> 2]

SzeDefault == [width |-> 0, height |-> 0]

MrgDefault == [lft |-> 0, rht |-> 0, btm |-> 0, top |-> 0]

\* Mrg::width
Mrg_width(m) == m.lft + m.rht

(***************************************************************************)
(* Style, Align, LineSpace and the fonts.                                  *)
(***************************************************************************)
Single == [tag |-> "Single", v |-> 0]

Double == [tag |-> "Double", v |-> 0]

Custom(x) == [tag |-> "Custom", v |-> x]

\* LineSpace::val
val(ls) ==
    CASE ls.tag = "Single" -> 100
      [] ls.tag = "Double" -> 200
      [] ls.tag = "Custom" -> ls.v

\* The values of the attributes in the model: the value of Doc::default()
\* and one other value.  A paragraph overrides with the other value.
Ins == {0, 1}

Fonts == {"DomineVariable", "Roboto"}

FntSzes == {12, 10}

Styles == {"Normal", "Italic"}

Aligns == {"Justify", "Left"}

LineSpaces == {Custom(135), Single}

AftSpaces == {Custom(135), Double}

Szes == {SzeDefault, ANSI_LETTER}

Mrgs == {MrgDefault, MRG_IN_1}

(***************************************************************************)
(* Par and Elm.                                                            *)
(***************************************************************************)
\* Par::default()
ParDefault ==
    [ind |-> None, fnt |-> None, fnt_sze |-> None, fnt_sty |-> None,
     aln |-> None, spc_lne |-> None, spc_aft |-> None, has_ind |-> None,
     txt |-> <<>>]

Par_set_ind(p, ind) == [p EXCEPT !.ind = ind]

\* set_fnt that leaves an override in place when called with None.
Par_set_fnt_keep(p, fnt) == IF fnt = None THEN p ELSE [p EXCEPT !.fnt = fnt]

Par_set_fnt(p, fnt) == [p EXCEPT !.fnt = fnt]

Par_set_fnt_sze(p, fnt_sze) == [p EXCEPT !.fnt_sze = fnt_sze]

Par_set_fnt_sty(p, sty) == [p EXCEPT !.fnt_sty = sty]

Par_set_aln(p, aln) == [p EXCEPT !.aln = aln]

Par_set_spc_lne(p, spc_lne) == [p EXCEPT !.spc_lne = spc_lne]

Par_set_spc_aft(p, spc_aft) == [p EXCEPT !.spc_aft = spc_aft]

Par_set_has_ind(p, has_ind) == [p EXCEPT !.has_ind = has_ind]

Par_set_txt(p, txt) == [p EXCEPT !.txt = txt]

\* par(txt)
par(txt) == Par_set_txt(ParDefault, txt)

\* Elm::Par(p) and Elm::PagBrk
ElmPar(p) == [kind |-> "Par", par |-> p]

PagBrk == [kind |-> "PagBrk"]

IsPar(e) == e.kind = "Par"

(***************************************************************************)
(* Doc.                                                                    *)
(***************************************************************************)
\* Doc::default()
DocDefault ==
    [sze |-> SzeDefault, mrg |-> MrgDefault, ind |-> 0,
     fnt |-> "DomineVariable", fnt_sze |-> 12, fnt_sty |-> "Normal",
     aln |-> "Justify", spc_lne |-> Custom(135), spc_par_aft |-> Custom(135),
     has_ind |-> TRUE, elms |-> <<>>]

Doc_set_sze(d, sze) == [d EXCEPT !.sze = sze]

Doc_set_mrg(d, mrg) == [d EXCEPT !.mrg = mrg]

Doc_set_ind(d, ind) == [d EXCEPT !.ind = ind]

Doc_set_fnt(d, fnt) == [d EXCEPT !.fnt = fnt]

Doc_set_fnt_sze(d, fnt_sze) == [d EXCEPT !.fnt_sze = fnt_sze]

Doc_set_fnt_sty(d, sty) == [d EXCEPT !.fnt_sty = sty]

Doc_set_aln(d, aln) == [d EXCEPT !.aln = aln]

Doc_set_spc_lne(d, spc_lne) == [d EXCEPT !.spc_lne = spc_lne]

Doc_set_spc_par_aft(d, spc_par_aft) == [d EXCEPT !.spc_par_aft = spc_par_aft]

Doc_set_has_ind(d, has_ind) == [d EXCEPT !.has_ind = has_ind]

\* new_ansi_letter()
new_ansi_letter ==
    Doc_set_ind(Doc_set_mrg(Doc_set_sze(DocDefault, ANSI_LETTER), MRG_IN_1), 1)

\* Doc::add_par
add_par(d, p) == [d EXCEPT !.elms = Append(@, ElmPar(p))]

\* Doc::add_pag_brk
add_pag_brk(d) == [d EXCEPT !.elms = Append(@, PagBrk)]

\* The paragraphs among elms, as elements.
RECURSIVE OnlyPars(_)
OnlyPars(elms) ==
    IF elms = <<>> THEN <<>>
    ELSE (IF IsPar(Head(elms)) THEN <<Head(elms)>> ELSE <<>>)
         \o OnlyPars(Tail(elms))

\* copy_pars that copies the paragraphs and leaves the page breaks out.
copy_pars_nobrk(self, d) ==
    [self |-> [self EXCEPT !.elms = @ \o OnlyPars(d.elms)], doc |-> d]

\* copy_pars that moves the elements out of the argument
\* (Vec::append in place of Vec::extend over clones).
copy_pars_move(self, d) ==
    [self |-> [self EXCEPT !.elms = @ \o d.elms],
     doc |-> [d EXCEPT !.elms = <<>>]]

\* A paragraph with the defaults of document d put in its unset fields.
Baked(d, p) ==
    [p EXCEPT !.ind = Some(unwrap_or(@, d.ind)),
              !.fnt = Some(unwrap_or(@, d.fnt)),
              !.fnt_sze = Some(unwrap_or(@, d.fnt_sze)),
              !.fnt_sty = Some(unwrap_or(@, d.fnt_sty)),
              !.aln = Some(unwrap_or(@, d.aln)),
              !.spc_lne = Some(unwrap_or(@, d.spc_lne)),
              !.spc_aft = Some(unwrap_or(@, d.spc_par_aft)),
              !.has_ind = Some(unwrap_or(@, d.has_ind))]

\* copy_pars that resolves the unset fields of the paragraphs against the
\* document they are copied from.
copy_pars_bake(self, d) ==
    [self |-> [self EXCEPT !.elms = @ \o
                  [i \in 1..Len(d.elms) |->
                      IF IsPar(d.elms[i])
                      THEN ElmPar(Baked(d, d.elms[i].par))
                      ELSE d.elms[i]]],
     doc |-> d]

\* Doc::copy_pars(&mut self, doc: Doc): the clones of the elements of the
\* argument are appended to self.elms.  `self` is the receiver and `doc`
\* the argument as they are when the function returns.
copy_pars(self, d) ==
    [self |-> [self EXCEPT !.elms = @ \o d.elms], doc |-> d]

(***************************************************************************)
(* Doc::seg_pags.  The loop over self.elms carries the pair                *)
(* (pages, current_page); seg_elm is one iteration of the loop body.       *)
(***************************************************************************)
\* seg_elm without the test `!current_page.is_empty()`.
seg_elm_nochk(acc, elm) ==
    IF IsPar(elm)
    THEN [acc EXCEPT !.current_page = Append(@, elm.par)]
    ELSE [pages |-> Append(acc.pages, acc.current_page), current_page |-> <<>>]

\* seg_elm that closes the page after every paragraph.
seg_elm_parpage(acc, elm) ==
    IF IsPar(elm)
    THEN [pages |-> Append(acc.pages, Append(acc.current_page, elm.par)),
          current_page |-> <<>>]
    ELSE acc

\* seg_elm that takes a page break for no element at all.
seg_elm_nobrk(acc, elm) ==
    IF IsPar(elm)
    THEN [acc EXCEPT !.current_page = Append(@, elm.par)]
    ELSE acc

seg_elm(acc, elm) ==
    IF IsPar(elm)
    THEN [acc EXCEPT !.current_page = Append(@, elm.par)]
    ELSE IF acc.current_page # <<>>
         THEN [pages |-> Append(acc.pages, acc.current_page),
               current_page |-> <<>>]
         ELSE acc

RECURSIVE seg_loop(_, _, _)
seg_loop(elms, i, acc) ==
    IF i > Len(elms) THEN acc ELSE seg_loop(elms, i + 1, seg_elm(acc, elms[i]))

\* seg_pags without the push of the last page.
seg_pags_nolast(d) ==
    seg_loop(d.elms, 1, [pages |-> <<>>, current_page |-> <<>>]).pages

seg_pags(d) ==
    LET acc == seg_loop(d.elms, 1, [pages |-> <<>>, current_page |-> <<>>])
    IN  IF acc.current_page # <<>>
        THEN Append(acc.pages, acc.current_page)
        ELSE acc.pages

(***************************************************************************)
(* Doc::replace_par_at and str::replace.                                   *)
(***************************************************************************)
\* `pat` matches `txt` at position i (1-based).
MatchAt(txt, pat, i) ==
    /\ i + Len(pat) - 1 <= Len(txt)
    /\ SubSeq(txt, i, i + Len(pat) - 1) = pat

\* str::replace: the matches of `from` are searched from the left and do
\* not overlap; the text between two matches is copied, each match gives
\* `to`.  An empty `from` matches before every character and at the end.
RECURSIVE str_replace_at(_, _, _, _)
str_replace_at(txt, from, to, i) ==
    IF i > Len(txt)
    THEN IF from = <<>> THEN to ELSE <<>>
    ELSE IF from = <<>>
         THEN to \o <<txt[i]>> \o str_replace_at(txt, from, to, i + 1)
         ELSE IF MatchAt(txt, from, i)
              THEN to \o str_replace_at(txt, from, to, i + Len(from))
              ELSE <<txt[i]>> \o str_replace_at(txt, from, to, i + 1)

str_replace(txt, from, to) == str_replace_at(txt, from, to, 1)

\* str::replacen(from, to, 1): the first match only.
RECURSIVE str_replace_first_at(_, _, _, _)
str_replace_first_at(txt, from, to, i) ==
    IF MatchAt(txt, from, i)
    THEN to \o SubSeq(txt, i + Len(from), Len(txt))
    ELSE IF i > Len(txt) THEN <<>>
         ELSE <<txt[i]>> \o str_replace_first_at(txt, from, to, i + 1)

\* replace_par_at that replaces the first match only.
replace_par_at_once(d, idx, from, to) ==
    IF idx < Len(d.elms) /\ IsPar(d.elms[idx + 1])
    THEN [doc |-> [d EXCEPT !.elms[idx + 1].par.txt =
                                 str_replace_first_at(@, from, to, 1)],
          res |-> "ok"]
    ELSE [doc |-> d, res |-> "ok"]

\* replace_par_at that takes the last element for an index out of range.
replace_par_at_last(d, idx, from, to) ==
    LET i == IF idx < Len(d.elms) THEN idx + 1 ELSE Len(d.elms)
    IN  IF i >= 1 /\ IsPar(d.elms[i])
        THEN [doc |-> [d EXCEPT !.elms[i].par.txt = str_replace(@, from, to)],
              res |-> "ok"]
        ELSE [doc |-> d, res |-> "ok"]

\* Doc::replace_par_at.  self.elms.get_mut(idx) is None when idx is out of
\* range; the `if let` matches a paragraph only.  The function returns ().
replace_par_at(d, idx, from, to) ==
    IF idx < Len(d.elms) /\ IsPar(d.elms[idx + 1])
    THEN [doc |-> [d EXCEPT !.elms[idx + 1].par.txt = str_replace(@, from, to)],
          res |-> "ok"]
    ELSE [doc |-> d, res |-> "ok"]

(***************************************************************************)
(* Doc::wrt_pag.  The attributes of a paragraph as the loop body resolves  *)
(* them.                                                                   *)
(***************************************************************************)
par_fnt(self, p) == unwrap_or(p.fnt, self.fnt)

par_fnt_sze(self, p) == unwrap_or(p.fnt_sze, self.fnt_sze)

par_spc_lne(self, p) == unwrap_or(p.spc_lne, self.spc_lne)

par_fnt_sty(self, p) == unwrap_or(p.fnt_sty, self.fnt_sty)

par_aln(self, p) == unwrap_or(p.aln, self.aln)

par_has_ind(self, p) == unwrap_or(p.has_ind, self.has_ind)

par_ind(self, p) == unwrap_or(p.ind, self.ind)

\* The spacing after a paragraph falling back to the line spacing of the
\* document.
par_spc_aft_lne(self, p) == unwrap_or(p.spc_aft, self.spc_lne)

par_spc_aft(self, p) == unwrap_or(p.spc_aft, self.spc_par_aft)

\* The text layout engine, as a deterministic stand-in: a line is as high
\* as the font size times the line height factor, and a paragraph has one
\* line for every character of its text and at least one line.  Heights
\* are in hundredths of a point.
line_height(fnt_sze, height) == fnt_sze * height

par_height(fnt_sze, height, txt) ==
    line_height(fnt_sze, height) * (IF txt = <<>> THEN 1 ELSE Len(txt))

\* create_fnt_col: `got` is what the font provider and the typeface parser
\* answer for the font, "ok", "load" (get_with_cache fails) or "parse"
\* (new_from_data gives None).
FontOutcomes == {"ok", "load", "parse"}

create_fnt_col(font, got) ==
    CASE got = "load" -> "FontLoadError"
      [] got = "parse" -> "FontParseError"
      [] OTHER -> "ok"

\* What the variants of wrt_par below lay out for paragraph p at cursor y.
LayAt(self, p, y) ==
    LET fnt_sze == par_fnt_sze(self, p)
        height == val(par_spc_lne(self, p))
        aft == par_spc_aft(self, p)
    IN  [fnt_col |-> par_fnt(self, p),
         family |-> par_fnt(self, p),
         fnt_sze |-> fnt_sze,
         height |-> height,
         fnt_sty |-> par_fnt_sty(self, p),
         aln |-> par_aln(self, p),
         placeholder |-> IF par_has_ind(self, p)
                         THEN Some(pt(par_ind(self, p))) ELSE None,
         txt |-> p.txt,
         wid |-> pt(self.sze.width - Mrg_width(self.mrg)),
         x |-> pt(self.mrg.lft),
         y |-> y,
         spc_aft |-> aft,
         y_end |-> y + (line_height(fnt_sze, height) * val(aft)) \div 100
                     + par_height(fnt_sze, height, p.txt)]

\* wrt_par that goes on with the next paragraph when create_fnt_col
\* fails, in place of returning the error.
wrt_par_skip(self, p, st, env) ==
    LET fnt == par_fnt(self, p)
        col == IF fnt \in st.fnts THEN "ok" ELSE create_fnt_col(fnt, env[fnt])
        req == LayAt(self, p, st.y)
    IN  IF col # "ok"
        THEN [st EXCEPT !.loads = Append(@, fnt)]
        ELSE [fnts |-> st.fnts \cup {fnt},
              loads |-> IF fnt \in st.fnts THEN st.loads
                        ELSE Append(st.loads, fnt),
              lay |-> Append(st.lay, req),
              y |-> req.y_end,
              err |-> "ok"]

\* wrt_par that calls create_fnt_col for every paragraph, whether its font
\* is in the cache or not.
wrt_par_nocache(self, p, st, env) ==
    LET fnt == par_fnt(self, p)
        col == create_fnt_col(fnt, env[fnt])
        req == LayAt(self, p, st.y)
    IN  IF st.err # "ok" THEN st
        ELSE IF col # "ok"
        THEN [st EXCEPT !.err = col, !.loads = Append(@, fnt)]
        ELSE [fnts |-> st.fnts \cup {fnt},
              loads |-> Append(st.loads, fnt),
              lay |-> Append(st.lay, req),
              y |-> req.y_end,
              err |-> "ok"]

\* One iteration of the loop over the paragraphs of a page.  st holds the
\* font cache, the fonts create_fnt_col was called for, the paragraphs
\* painted, the cursor y and the error that ended the loop.
wrt_par(self, p, st, env) ==
    LET fnt == par_fnt(self, p)
        col == IF fnt \in st.fnts THEN "ok" ELSE create_fnt_col(fnt, env[fnt])
        fnt_sze == par_fnt_sze(self, p)
        height == val(par_spc_lne(self, p))
        has_ind == par_has_ind(self, p)
        aft == par_spc_aft(self, p)
        y1 == st.y + (line_height(fnt_sze, height) * val(aft)) \div 100
        y2 == y1 + par_height(fnt_sze, height, p.txt)
        req == [fnt_col |-> fnt,
                family |-> par_fnt(self, p),
                fnt_sze |-> fnt_sze,
                height |-> height,
                fnt_sty |-> par_fnt_sty(self, p),
                aln |-> par_aln(self, p),
                placeholder |-> IF has_ind THEN Some(pt(par_ind(self, p)))
                                           ELSE None,
                txt |-> p.txt,
                wid |-> pt(self.sze.width - Mrg_width(self.mrg)),
                x |-> pt(self.mrg.lft),
                y |-> st.y,
                spc_aft |-> aft,
                y_end |-> y2]
    IN  IF st.err # "ok" THEN st
        ELSE IF col # "ok"
        THEN [st EXCEPT !.err = col, !.loads = Append(@, fnt)]
        ELSE [fnts |-> st.fnts \cup {fnt},
              loads |-> IF fnt \in st.fnts THEN st.loads
                        ELSE Append(st.loads, fnt),
              lay |-> Append(st.lay, req),
              y |-> y2,
              err |-> "ok"]

RECURSIVE wrt_pars(_, _, _, _, _)
wrt_pars(self, pars, i, st, env) ==
    IF i > Len(pars) THEN st
    ELSE wrt_pars(self, pars, i + 1, wrt_par(self, pars[i], st, env), env)

\* wrt_pag that goes on from the cursor of the page before.
wrt_pag_carry(self, pars, w, env) ==
    LET y0 == IF w.lay = <<>> THEN pt(self.mrg.top) * 100
              ELSE w.lay[Len(w.lay)].y_end
        st == wrt_pars(self, pars, 1,
                       [fnts |-> w.fnts, loads |-> w.loads, lay |-> w.lay,
                        y |-> y0, err |-> "ok"], env)
    IN  [fnts |-> st.fnts, loads |-> st.loads, lay |-> st.lay,
         pdf |-> IF st.err = "ok"
                 THEN w.pdf \o <<"begin_page", "end_page">>
                 ELSE Append(w.pdf, "begin_page"),
         err |-> st.err]

\* wrt_pag that never calls end_page.
wrt_pag_noend(self, pars, w, env) ==
    LET st == wrt_pars(self, pars, 1,
                       [fnts |-> w.fnts, loads |-> w.loads, lay |-> w.lay,
                        y |-> pt(self.mrg.top) * 100, err |-> "ok"], env)
    IN  [fnts |-> st.fnts, loads |-> st.loads, lay |-> st.lay,
         pdf |-> Append(w.pdf, "begin_page"),
         err |-> st.err]

\* Doc::wrt_pag: begin_page, the paragraphs from the top margin on, and
\* end_page unless a font error returned from the function before.
wrt_pag(self, pars, w, env) ==
    LET st == wrt_pars(self, pars, 1,
                       [fnts |-> w.fnts, loads |-> w.loads, lay |-> w.lay,
                        y |-> pt(self.mrg.top) * 100, err |-> "ok"], env)
    IN  [fnts |-> st.fnts, loads |-> st.loads, lay |-> st.lay,
         pdf |-> IF st.err = "ok"
                 THEN w.pdf \o <<"begin_page", "end_page">>
                 ELSE Append(w.pdf, "begin_page"),
         err |-> st.err]

(***************************************************************************)
(* The state.                                                              *)
(*   doc    the document                                                   *)
(*   bld    the paragraph a caller is building (Option<Par>), moved into   *)
(*          the document by add_par; a paragraph is built inside the       *)
(*          statement that adds it, `doc.add_par(par(t).set_x(v))`, so     *)
(*          the other operations of the document find none being built     *)
(*   hist   for every attribute, the arguments of the setter calls made    *)
(*          on bld, in the order of the calls                              *)
(*   call   the last operation called, its arguments and its result        *)
(*   pc     "idle" while the document is built, "pages" and "ret" inside   *)
(*          save_pdf, "done" once a save_pdf returned: the document is     *)
(*          built first and rendered then, any number of times             *)
(*   pags   the pages seg_pags returned: to the caller after a call of     *)
(*          seg_pags, the pages not yet written inside save_pdf            *)
(*   fnts   the keys of the font cache of the running save_pdf             *)
(*   pdf    the page writer calls of the running save_pdf                  *)
(*   lay    the paragraphs laid out and painted by the running save_pdf    *)
(*   loads  the fonts create_fnt_col was called for by the running save_pdf*)
(*   file   the output file: "absent", "partial" or "complete"             *)
(*   other  the document the caller made before doc and still holds        *)
(*          (Option<Doc>)                                                  *)
(*   cpy    for the elements copy_pars appended, the pairs of their        *)
(*          position in doc.elms and their position in the argument        *)
(*   json   the JSON file: None when absent, its content otherwise         *)
(***************************************************************************)
Call(op, args, res) == [op |-> op, args |-> args, res |-> res]

\* The attributes a paragraph can override.
Attrs == {"ind", "fnt", "fnt_sze", "fnt_sty", "aln", "spc_lne", "spc_aft",
          "has_ind"}

NoHist == [a \in Attrs |-> <<>>]

\* The documents a caller makes: Doc::default() or new_ansi_letter(), as
\* they are or with one setter of the document called on them, as in
\* `new_ansi_letter().set_spc_lne(v)`.
NewDocs ==
    LET made == {DocDefault, new_ansi_letter}
    IN  made
        \cup {Doc_set_sze(d, v) : d \in made, v \in Szes}
        \cup {Doc_set_mrg(d, v) : d \in made, v \in Mrgs}
        \cup {Doc_set_ind(d, v) : d \in made, v \in Ins}
        \cup {Doc_set_fnt(d, v) : d \in made, v \in Fonts}
        \cup {Doc_set_fnt_sze(d, v) : d \in made, v \in FntSzes}
        \cup {Doc_set_fnt_sty(d, v) : d \in made, v \in Styles}
        \cup {Doc_set_aln(d, v) : d \in made, v \in Aligns}
        \cup {Doc_set_spc_lne(d, v) : d \in made, v \in LineSpaces}
        \cup {Doc_set_spc_par_aft(d, v) : d \in made, v \in AftSpaces}
        \cup {Doc_set_has_ind(d, v) : d \in made, v \in BOOLEAN}

Init ==
    /\ doc \in NewDocs
    /\ bld = None
    /\ hist = NoHist
    /\ call = Call("new", <<>>, "ok")
    /\ pc = "idle"
    /\ pags = <<>>
    /\ fnts = {}
    /\ pdf = <<>>
    /\ lay = <<>>
    /\ loads = <<>>
    /\ file = "absent"
    /\ other = None
    /\ cpy = {}
    /\ json = None

\* What every operation other than save_pdf leaves alone.
NoRender == UNCHANGED <<fnts, pdf, lay, loads, file>>

\* What every operation on one document leaves alone: the other document
\* of the caller and the JSON file.
NoOther == UNCHANGED <<other, cpy, json>>

\* par(txt)
NewPar(txt, max) ==
    /\ pc = "idle"
    /\ Len(doc.elms) < max
    /\ bld' = Some(par(txt))
    /\ hist' = NoHist
    /\ call' = Call("par", <<txt>>, "ok")
    /\ pags' = <<>>
    /\ UNCHANGED <<doc, pc>>
    /\ NoRender
    /\ NoOther

\* The number of setter calls made on the paragraph being built.
HistLen ==
    Len(hist["ind"]) + Len(hist["fnt"]) + Len(hist["fnt_sze"])
    + Len(hist["fnt_sty"]) + Len(hist["aln"]) + Len(hist["spc_lne"])
    + Len(hist["spc_aft"]) + Len(hist["has_ind"])

\* The number of overrides set in the paragraphs of elms.
RECURSIVE Overrides(_)
Overrides(elms) ==
    IF elms = <<>> THEN 0
    ELSE (IF IsPar(Head(elms))
          THEN Cardinality({a \in Attrs : Head(elms).par[a] # None})
          ELSE 0)
         + Overrides(Tail(elms))

\* A setter of the paragraph being built: `next` is the paragraph the
\* setter of attribute attr returns for the argument v.
ParSet(attr, v, next) ==
    /\ pc = "idle"
    /\ bld # None
    /\ HistLen + Overrides(doc.elms) < MaxParSets
    /\ bld' = Some(next)
    /\ hist' = [hist EXCEPT ![attr] = Append(@, v)]
    /\ call' = Call("Par::set_" \o attr, <<v>>, "ok")
    /\ pags' = <<>>
    /\ UNCHANGED <<doc, pc>>
    /\ NoRender
    /\ NoOther

ParSetInd ==
    \E v \in Opt(Ins \ {DocDefault.ind}) :
        ParSet("ind", v, Par_set_ind(bld[1], v))

ParSetFnt ==
    \E v \in Opt(Fonts \ {DocDefault.fnt}) :
        ParSet("fnt", v, Par_set_fnt(bld[1], v))

ParSetFntSze ==
    \E v \in Opt(FntSzes \ {DocDefault.fnt_sze}) :
        ParSet("fnt_sze", v, Par_set_fnt_sze(bld[1], v))

ParSetFntSty ==
    \E v \in Opt(Styles \ {DocDefault.fnt_sty}) :
        ParSet("fnt_sty", v, Par_set_fnt_sty(bld[1], v))

ParSetAln ==
    \E v \in Opt(Aligns \ {DocDefault.aln}) :
        ParSet("aln", v, Par_set_aln(bld[1], v))

ParSetSpcLne ==
    \E v \in Opt(LineSpaces \ {DocDefault.spc_lne}) :
        ParSet("spc_lne", v, Par_set_spc_lne(bld[1], v))

ParSetSpcAft ==
    \E v \in Opt(AftSpaces \ {DocDefault.spc_par_aft}) :
        ParSet("spc_aft", v, Par_set_spc_aft(bld[1], v))

ParSetHasInd ==
    \E v \in Opt(BOOLEAN \ {DocDefault.has_ind}) :
        ParSet("has_ind", v, Par_set_has_ind(bld[1], v))

\* doc.add_par(p) with the paragraph that was built.
AddPar(max) ==
    /\ pc = "idle"
    /\ bld # None
    /\ Len(doc.elms) < max
    /\ doc' = add_par(doc, bld[1])
    /\ bld' = None
    /\ hist' = NoHist
    /\ call' = Call("add_par", <<bld[1]>>, "ok")
    /\ pags' = <<>>
    /\ UNCHANGED pc
    /\ NoRender
    /\ NoOther

\* doc.add_pag_brk()
AddPagBrk(max) ==
    /\ pc = "idle"
    /\ bld = None
    /\ Len(doc.elms) < max
    /\ doc' = add_pag_brk(doc)
    /\ call' = Call("add_pag_brk", <<>>, "ok")
    /\ pags' = <<>>
    /\ UNCHANGED <<bld, hist, pc>>
    /\ NoRender
    /\ NoOther

\* doc.seg_pags(), called by itself.
SegPags ==
    /\ pc = "idle"
    /\ bld = None
    /\ pags' = seg_pags(doc)
    /\ call' = Call("seg_pags", <<>>, "ok")
    /\ UNCHANGED <<doc, bld, hist, pc>>
    /\ NoRender
    /\ NoOther

\* The characters of the texts of a document, all paragraphs together.
RECURSIVE TxtLen(_)
TxtLen(elms) ==
    IF elms = <<>> THEN 0
    ELSE (IF IsPar(Head(elms)) THEN Len(Head(elms).par.txt) ELSE 0)
         + TxtLen(Tail(elms))

\* doc.replace_par_at(idx, from, to); the texts stay within MaxTxtLen.
\* A call that follows a call of replace_par_at is left out: the document
\* it would find is one that add_par and add_pag_brk build as well.
ReplaceParAt(idx, from, to) ==
    LET r == replace_par_at(doc, idx, from, to)
    IN  /\ pc = "idle"
        /\ bld = None
        /\ call.op # "replace_par_at"
        /\ TxtLen(r.doc.elms) <= MaxTxtLen
        /\ doc' = r.doc
        /\ call' = Call("replace_par_at", <<idx, from, to>>, r.res)
        /\ pags' = <<>>
        /\ UNCHANGED <<bld, hist, pc>>
        /\ NoRender
        /\ NoOther

(***************************************************************************)
(* Doc::save_json and Doc::read_json: serde_json over the derived          *)
(* Serialize and Deserialize of Doc, Par, Elm, Sze, Mrg, In, LineSpace,    *)
(* Style, Align and Font.  A JSON text is held as the value it denotes.    *)
(***************************************************************************)
\* f32::INFINITY.  The finite numbers of the model are smaller, and the
\* model does no arithmetic on it.
INFINITY == 1000000

is_finite(x) == x # INFINITY

JNull == [t |-> "null", v |-> 0]

JNum(x) == [t |-> "num", v |-> x]

JStr(x) == [t |-> "str", v |-> x]

JBool(x) == [t |-> "bool", v |-> x]

JArr(x) == [t |-> "arr", v |-> x]

JObj(x) == [t |-> "obj", v |-> x]

\* A JSON text that ends before its end.
JCut == [t |-> "cut", v |-> 0]

\* serde_json writes a number that is not finite as null.
ser_f32(x) == IF is_finite(x) THEN JNum(x) ELSE JNull

\* In is a newtype struct: it is written as the number it holds.
ser_In(x) == ser_f32(x)

ser_Sze(z) == JObj([k \in {"width", "height"} |-> ser_In(z[k])])

ser_Mrg(m) == JObj([k \in {"lft", "rht", "btm", "top"} |-> ser_In(m[k])])

\* A unit variant is written as its name, a newtype variant as an object
\* with its name for the one key.
ser_LineSpace(ls) ==
    IF ls.tag = "Custom"
    THEN JObj([k \in {"Custom"} |-> ser_f32(ls.v)])
    ELSE JStr(ls.tag)

\* Par: a field that is None is skipped (skip_serializing_if).
ser_Par(p) ==
    JObj([k \in {a \in Attrs : p[a] # None} \cup {"txt"} |->
            CASE k = "ind" -> ser_In(p.ind[1])
              [] k = "fnt" -> JStr(p.fnt[1])
              [] k = "fnt_sze" -> ser_f32(p.fnt_sze[1])
              [] k = "fnt_sty" -> JStr(p.fnt_sty[1])
              [] k = "aln" -> JStr(p.aln[1])
              [] k = "spc_lne" -> ser_LineSpace(p.spc_lne[1])
              [] k = "spc_aft" -> ser_LineSpace(p.spc_aft[1])
              [] k = "has_ind" -> JBool(p.has_ind[1])
              [] k = "txt" -> JStr(p.txt)])

ser_Elm(e) ==
    IF IsPar(e) THEN JObj([k \in {"Par"} |-> ser_Par(e.par)])
    ELSE JStr("PagBrk")

DocKeys == {"sze", "mrg", "ind", "fnt", "fnt_sze", "fnt_sty", "aln",
            "spc_lne", "spc_par_aft", "has_ind", "elms"}

ser_Doc(d) ==
    JObj([k \in DocKeys |->
            CASE k = "sze" -> ser_Sze(d.sze)
              [] k = "mrg" -> ser_Mrg(d.mrg)
              [] k = "ind" -> ser_In(d.ind)
              [] k = "fnt" -> JStr(d.fnt)
              [] k = "fnt_sze" -> ser_f32(d.fnt_sze)
              [] k = "fnt_sty" -> JStr(d.fnt_sty)
              [] k = "aln" -> JStr(d.aln)
              [] k = "spc_lne" -> ser_LineSpace(d.spc_lne)
              [] k = "spc_par_aft" -> ser_LineSpace(d.spc_par_aft)
              [] k = "has_ind" -> JBool(d.has_ind)
              [] k = "elms" ->
                    JArr([i \in 1..Len(d.elms) |-> ser_Elm(d.elms[i])])])

\* serde_json::to_string_pretty(self)
to_string_pretty(d) == ser_Doc(d)

\* Result<T, serde_json::Error>: Err is <<>>, Ok(v) is <<v>>.
Err == <<>>

Ok(v) == <<v>>

\* A number is read from a number; null is not one.
de_f32(j) == IF j.t = "num" THEN Ok(j.v) ELSE Err

de_In(j) == de_f32(j)

de_bool(j) == IF j.t = "bool" THEN Ok(j.v) ELSE Err

de_String(j) == IF j.t = "str" THEN Ok(j.v) ELSE Err

\* An enum of unit variants with the names S.
de_unit(j, S) == IF j.t = "str" /\ j.v \in S THEN Ok(j.v) ELSE Err

\* The variants of the enums and the fonts, by name.
StyleNames == {"Normal", "Italic", "Bold", "BoldItalic"}

AlignNames == {"Left", "Right", "Center", "Justify"}

de_Style(j) == de_unit(j, StyleNames)

de_Align(j) == de_unit(j, AlignNames)

de_Font(j) == de_unit(j, Fonts)

de_LineSpace(j) ==
    IF j.t = "str"
    THEN IF j.v \in {"Single", "Double"}
         THEN Ok([tag |-> j.v, v |-> 0]) ELSE Err
    ELSE IF j.t = "obj" /\ DOMAIN j.v = {"Custom"}
         THEN LET x == de_f32(j.v["Custom"])
              IN  IF x = Err THEN Err ELSE Ok(Custom(x[1]))
         ELSE Err

\* What an object has for key k; no type reads a value from JMissing, so
\* that a missing field of a struct is an error.
JMissing == [t |-> "missing", v |-> 0]

field(obj, k) == IF k \in DOMAIN obj THEN obj[k] ELSE JMissing

\* A field of type Option<T> with the value j, from which T reads x: None
\* when the key is missing and when the value is null, Some of the value
\* read otherwise.
de_option(j, x) ==
    IF j.t \in {"missing", "null"} THEN Ok(None)
    ELSE IF x = Err THEN Err ELSE Ok(Some(x[1]))

\* A struct from the results for its fields: an error when one is.
de_struct(f) ==
    IF \E k \in DOMAIN f : f[k] = Err THEN Err
    ELSE Ok([k \in DOMAIN f |-> f[k][1]])

de_Sze(j) ==
    IF j.t # "obj" THEN Err
    ELSE de_struct([k \in {"width", "height"} |-> de_In(field(j.v, k))])

de_Mrg(j) ==
    IF j.t # "obj" THEN Err
    ELSE de_struct([k \in {"lft", "rht", "btm", "top"} |->
                       de_In(field(j.v, k))])

de_Par(j) ==
    IF j.t # "obj" THEN Err
    ELSE de_struct(
           [k \in Attrs \cup {"txt"} |->
              LET f == field(j.v, k)
              IN  CASE k = "ind" -> de_option(f, de_In(f))
                    [] k = "fnt" -> de_option(f, de_Font(f))
                    [] k = "fnt_sze" -> de_option(f, de_f32(f))
                    [] k = "fnt_sty" -> de_option(f, de_Style(f))
                    [] k = "aln" -> de_option(f, de_Align(f))
                    [] k = "spc_lne" -> de_option(f, de_LineSpace(f))
                    [] k = "spc_aft" -> de_option(f, de_LineSpace(f))
                    [] k = "has_ind" -> de_option(f, de_bool(f))
                    [] k = "txt" -> de_String(f)])

de_Elm(j) ==
    IF j.t = "str"
    THEN IF j.v = "PagBrk" THEN Ok(PagBrk) ELSE Err
    ELSE IF j.t = "obj" /\ DOMAIN j.v = {"Par"}
         THEN LET x == de_Par(j.v["Par"])
              IN  IF x = Err THEN Err ELSE Ok(ElmPar(x[1]))
         ELSE Err

de_Vec_Elm(j) ==
    IF j.t # "arr" THEN Err
    ELSE LET x == [i \in 1..Len(j.v) |-> de_Elm(j.v[i])]
         IN  IF \E i \in 1..Len(x) : x[i] = Err THEN Err
             ELSE Ok([i \in 1..Len(x) |-> x[i][1]])

de_Doc(j) ==
    IF j.t # "obj" THEN Err
    ELSE de_struct(
           [k \in DocKeys |->
              CASE k = "sze" -> de_Sze(field(j.v, k))
                [] k = "mrg" -> de_Mrg(field(j.v, k))
                [] k = "ind" -> de_In(field(j.v, k))
                [] k = "fnt" -> de_Font(field(j.v, k))
                [] k = "fnt_sze" -> de_f32(field(j.v, k))
                [] k = "fnt_sty" -> de_Style(field(j.v, k))
                [] k = "aln" -> de_Align(field(j.v, k))
                [] k = "spc_lne" -> de_LineSpace(field(j.v, k))
                [] k = "spc_par_aft" -> de_LineSpace(field(j.v, k))
                [] k = "has_ind" -> de_bool(field(j.v, k))
                [] k = "elms" -> de_Vec_Elm(field(j.v, k))])

\* serde_json::from_reader(rdr)
from_reader(j) == de_Doc(j)

\* The caller makes another document and keeps the one it has: the new
\* document is doc from here on, the one made before is other.
NewDoc ==
    /\ pc = "idle"
    /\ bld = None
    /\ other = None
    /\ other' = Some(doc)
    /\ doc' \in NewDocs
    /\ cpy' = {}
    /\ call' = Call("new", <<>>, "ok")
    /\ pags' = <<>>
    /\ UNCHANGED <<bld, hist, pc, json>>
    /\ NoRender

\* doc.copy_pars(other)
CopyPars(max) ==
    /\ pc = "idle"
    /\ bld = None
    /\ other # None
    /\ Len(doc.elms) + Len(other[1].elms) <= max
    /\ LET r == copy_pars(doc, other[1])
       IN  /\ doc' = r.self
           /\ other' = Some(r.doc)
           /\ cpy' = cpy \cup {<<Len(doc.elms) + j, j>> :
                                   j \in 1..Len(other[1].elms)}
    /\ call' = Call("copy_pars", <<other[1]>>, "ok")
    /\ pags' = <<>>
    /\ UNCHANGED <<bld, hist, pc, json>>
    /\ NoRender

\* doc.save_json(pth): to_string_pretty, File::create and write_all.  `io`
\* is what the file system answers: "ok", "create" (File::create fails) or
\* "write" (write_all fails after the file was created).
SaveJson ==
    /\ pc = "idle"
    /\ bld = None
    /\ \E io \in {"ok", "create", "write"} :
          /\ json' = CASE io = "ok" -> Some(to_string_pretty(doc))
                       [] io = "write" -> Some(JCut)
                       [] OTHER -> json
          /\ call' = Call("save_json", <<>>,
                          IF io = "ok" THEN "ok" ELSE "FileError")
    /\ pags' = <<>>
    /\ UNCHANGED <<doc, bld, hist, pc, other, cpy>>
    /\ NoRender

\* `let doc2 = doc.read_json(pth)`: File::open and from_reader.  `io` is
\* what the file system answers: "ok" or "open" (File::open fails, as it
\* does when there is no file).  The caller goes on with the document
\* read.
ReadJson ==
    /\ pc = "idle"
    /\ bld = None
    /\ \E io \in {"ok", "open"} :
          LET opened == json # None /\ io = "ok"
              r == IF opened THEN from_reader(json[1]) ELSE Err
              res == CASE ~opened -> "FileError"
                       [] r = Err -> "SerializationError"
                       [] OTHER -> "ok"
          IN  /\ call' = Call("read_json", <<>>, res)
              /\ IF res = "ok"
                 THEN doc' = r[1]
                 ELSE UNCHANGED doc
    /\ pags' = <<>>
    /\ UNCHANGED <<bld, hist, pc, other, cpy, json>>
    /\ NoRender

\* set_fnt_sze of the paragraph being built with any f32.
ParSetFntSzeF32 ==
    \E v \in Opt({10, INFINITY}) :
        ParSet("fnt_sze", v, Par_set_fnt_sze(bld[1], v))

(***************************************************************************)
(* Doc::save_pdf, in steps: the start up to seg_pags, one step for every   *)
(* call of wrt_pag, the close of the writer with the creation and the      *)
(* writing of the file, and the return to the caller.                      *)
(***************************************************************************)
SavePdfBegin ==
    /\ pc \in {"idle", "done"}
    /\ bld = None
    /\ pc' = "pages"
    /\ pags' = seg_pags(doc)
    /\ fnts' = {}
    /\ pdf' = <<>>
    /\ lay' = <<>>
    /\ loads' = <<>>
    /\ call' = Call("save_pdf", <<>>, "running")
    /\ UNCHANGED <<doc, bld, hist, file>>
    /\ NoOther

WrtPag ==
    /\ pc = "pages"
    /\ pags # <<>>
    /\ \E env \in [Fonts -> FontOutcomes] :
          LET r == wrt_pag(doc, Head(pags),
                           [fnts |-> fnts, loads |-> loads, lay |-> lay,
                            pdf |-> pdf], env)
          IN  /\ fnts' = r.fnts
              /\ loads' = r.loads
              /\ lay' = r.lay
              /\ pdf' = r.pdf
              /\ pags' = Tail(pags)
              /\ IF r.err = "ok"
                 THEN UNCHANGED <<pc, call>>
                 ELSE pc' = "ret" /\ call' = [call EXCEPT !.res = r.err]
    /\ UNCHANGED <<doc, bld, hist, file>>
    /\ NoOther

\* pdf.close(), File::create and file.write_all.  `io` is what the file
\* system answers: "ok", "create" (File::create fails) or "write"
\* (write_all fails after the file was created, which takes bytes to
\* write: a writer that was given no page gives none).
SavePdfFinish ==
    /\ pc = "pages"
    /\ pags = <<>>
    /\ pdf' = Append(pdf, "close")
    /\ \E io \in {"ok", "create", "write"} :
          /\ io = "write" => pdf # <<>>
          /\ file' = CASE io = "ok" -> "complete"
                       [] io = "write" -> "partial"
                       [] OTHER -> file
          /\ call' = [call EXCEPT
                        !.res = IF io = "ok" THEN "ok" ELSE "FileError"]
    /\ pc' = "ret"
    /\ UNCHANGED <<doc, bld, hist, pags, fnts, lay, loads>>
    /\ NoOther

\* save_pdf returns: its locals are dropped.
SavePdfReturn ==
    /\ pc = "ret"
    /\ pc' = "done"
    /\ pags' = <<>>
    /\ fnts' = {}
    /\ pdf' = <<>>
    /\ lay' = <<>>
    /\ loads' = <<>>
    /\ UNCHANGED <<doc, bld, hist, call, file>>
    /\ NoOther

(***************************************************************************)
(* The specifications.                                                     *)
(***************************************************************************)
\* The texts of the paragraphs of the pagination specification.
SegTxts == {<<"a">>, <<"b">>}

\* Pagination: documents of plain paragraphs and page breaks.
NextSeg ==
    \/ \E t \in SegTxts : NewPar(t, MaxElms)
    \/ AddPar(MaxElms)
    \/ AddPagBrk(MaxElms)
    \/ SegPags

SpecSeg == Init /\ [][NextSeg]_vars

\* The text of the paragraphs of the attribute specification.
AttrTxts == {<<"a">>}

\* Attributes: paragraphs with overrides in documents with their own
\* defaults, rendered by save_pdf.
NextAttr ==
    \/ \E t \in AttrTxts : NewPar(t, MaxAttrElms)
    \/ ParSetInd
    \/ ParSetFnt
    \/ ParSetFntSze
    \/ ParSetFntSty
    \/ ParSetAln
    \/ ParSetSpcLne
    \/ ParSetSpcAft
    \/ ParSetHasInd
    \/ AddPar(MaxAttrElms)
    \/ AddPagBrk(MaxAttrElms)
    \/ SavePdfBegin
    \/ WrtPag
    \/ SavePdfFinish
    \/ SavePdfReturn

SpecAttr == Init /\ [][NextAttr]_vars

\* The characters of the texts of the text specification.
Chars == {"a", "b"}

\* The texts of at most n characters.
Texts(n) == UNION {[1..k -> Chars] : k \in 0..n}

\* The patterns and the replacements replace_par_at is called with.
Froms == {<<>>, <<"a">>, <<"b">>, <<"a", "a">>, <<"a", "b">>}

Tos == {<<>>, <<"b">>, <<"b", "a">>}

\* Text substitution: paragraphs of any text, with or without an override,
\* and replace_par_at with any index, pattern and replacement.
NextTxt ==
    \/ \E t \in Texts(MaxTxtLen - TxtLen(doc.elms)) : NewPar(t, MaxTxtElms)
    \/ ParSetHasInd
    \/ AddPar(MaxTxtElms)
    \/ AddPagBrk(MaxTxtElms)
    \/ \E idx \in 0..MaxTxtElms :
          \E from \in Froms, to \in Tos : ReplaceParAt(idx, from, to)

\* The documents of the text specification are made by new_ansi_letter().
InitLetter == Init /\ doc = new_ansi_letter

SpecTxt == InitLetter /\ [][NextTxt]_vars

\* The texts of the paragraphs of the render specification, of one line
\* and of two.
RndTxts == {<<"a">>, <<"a", "b">>}

\* Renders: documents of several pages made by new_ansi_letter(), with
\* paragraphs of their own font and spacing, rendered by save_pdf.
NextRender ==
    \/ \E t \in RndTxts : NewPar(t, MaxRndElms)
    \/ ParSetFnt
    \/ ParSetSpcAft
    \/ AddPar(MaxRndElms)
    \/ AddPagBrk(MaxRndElms)
    \/ SavePdfBegin
    \/ WrtPag
    \/ SavePdfFinish
    \/ SavePdfReturn

SpecRender == InitLetter /\ [][NextRender]_vars

\* Copies: a document is built and kept, another one is made, takes the
\* elements of the first, and is rendered.
NextCopy ==
    \/ \E t \in AttrTxts : NewPar(t, MaxCopyElms)
    \/ ParSetFnt
    \/ AddPar(MaxCopyElms)
    \/ AddPagBrk(MaxCopyElms)
    \/ NewDoc
    \/ CopyPars(MaxCopyElms)
    \/ SavePdfBegin
    \/ WrtPag
    \/ SavePdfFinish
    \/ SavePdfReturn

SpecCopy == InitLetter /\ [][NextCopy]_vars

\* The documents of the persistence specification: the ones of NewDocs
\* and documents with a font size that is not finite.
InitJson ==
    /\ doc \in NewDocs \cup {Doc_set_fnt_sze(d, INFINITY) :
                                d \in {DocDefault, new_ansi_letter}}
    /\ bld = None
    /\ hist = NoHist
    /\ call = Call("new", <<>>, "ok")
    /\ pc = "idle"
    /\ pags = <<>>
    /\ fnts = {}
    /\ pdf = <<>>
    /\ lay = <<>>
    /\ loads = <<>>
    /\ file = "absent"
    /\ other = None
    /\ cpy = {}
    /\ json = None

\* Persistence: documents are built, saved with save_json and read with
\* read_json.
NextJson ==
    \/ \E t \in AttrTxts : NewPar(t, MaxJsonElms)
    \/ ParSetFntSzeF32
    \/ ParSetSpcAft
    \/ AddPar(MaxJsonElms)
    \/ AddPagBrk(MaxJsonElms)
    \/ SaveJson
    \/ ReadJson

SpecJson == InitJson /\ [][NextJson]_vars

(***************************************************************************)
(* Pagination (Doc::seg_pags), checked in the states a call of seg_pags    *)
(* returned in: pags is the value returned for doc.                        *)
(***************************************************************************)
SegReturned == call.op = "seg_pags"

\* The paragraphs of an element sequence, in order.
RECURSIVE ParsOf(_)
ParsOf(elms) ==
    IF elms = <<>> THEN <<>>
    ELSE (IF IsPar(Head(elms)) THEN <<Head(elms).par>> ELSE <<>>)
         \o ParsOf(Tail(elms))

\* The pages one after the other.
RECURSIVE Flatten(_)
Flatten(pages) ==
    IF pages = <<>> THEN <<>> ELSE Head(pages) \o Flatten(Tail(pages))

NumBrk(elms) == Cardinality({i \in 1..Len(elms) : ~IsPar(elms[i])})

\* The number of paragraphs among the first i elements.
ParRank(elms, i) == Cardinality({j \in 1..i : IsPar(elms[j])})

\* The lengths of the first n pages, added up.
RECURSIVE PagesLen(_, _)
PagesLen(pages, n) ==
    IF n = 0 THEN 0 ELSE Len(pages[n]) + PagesLen(pages, n - 1)

\* The page the k-th paragraph of the document is on, 0 when on none.
PageOf(pages, k) ==
    LET on == {n \in 1..Len(pages) :
                  PagesLen(pages, n - 1) < k /\ k <= PagesLen(pages, n)}
    IN  IF on = {} THEN 0 ELSE CHOOSE n \in on : TRUE

\* elms with a page break put in after its first k elements.
InsertBrk(elms, k) ==
    SubSeq(elms, 1, k) \o <<PagBrk>> \o SubSeq(elms, k + 1, Len(elms))

\* C1: no page returned by seg_pags is empty.
C1_NoEmptyPage ==
    SegReturned => \A n \in 1..Len(pags) : pags[n] # <<>>

\* seg_pags returned two pages for a document with a leading break, two
\* breaks in a row and a trailing break.
C1_Witness ==
    /\ SegReturned
    /\ Len(pags) = 2
    /\ Len(doc.elms) = 5
    /\ ~IsPar(doc.elms[1]) /\ ~IsPar(doc.elms[3]) /\ ~IsPar(doc.elms[4])

\* C2: the pages returned by seg_pags, one after the other, are the
\* paragraphs of the document in their order.
C2_PagesAreThePars ==
    SegReturned => Flatten(pags) = ParsOf(doc.elms)

\* seg_pags returned two pages holding three paragraphs, not all the same.
C2_Witness ==
    /\ SegReturned
    /\ Len(pags) = 2
    /\ Len(Flatten(pags)) = 3
    /\ \E i, j \in 1..3 : Flatten(pags)[i] # Flatten(pags)[j]

\* C3: seg_pags returns at most one page more than the document has page
\* breaks.
C3_PageCount ==
    SegReturned => Len(pags) <= NumBrk(doc.elms) + 1

\* seg_pags returned one page more than the document has page breaks.
C3_Witness ==
    /\ SegReturned
    /\ NumBrk(doc.elms) = 2
    /\ Len(pags) = 3

\* C4: two paragraphs are on the same page if and only if no page break
\* lies between them; [a, break, break, b] gives [[a],[b]] and [a, b]
\* gives [[a,b]].
C4_SamePageIffNoBreak ==
    SegReturned =>
        /\ \A i, j \in 1..Len(doc.elms) :
              (i < j /\ IsPar(doc.elms[i]) /\ IsPar(doc.elms[j])) =>
                  /\ PageOf(pags, ParRank(doc.elms, i)) # 0
                  /\ PageOf(pags, ParRank(doc.elms, j)) # 0
                  /\ (PageOf(pags, ParRank(doc.elms, i))
                          = PageOf(pags, ParRank(doc.elms, j)))
                     <=> (\A k \in (i + 1)..(j - 1) : IsPar(doc.elms[k]))
        /\ \A a, b \in SegTxts :
              /\ doc.elms = <<ElmPar(par(a)), PagBrk, PagBrk, ElmPar(par(b))>>
                    => pags = <<<<par(a)>>, <<par(b)>>>>
              /\ doc.elms = <<ElmPar(par(a)), ElmPar(par(b))>>
                    => pags = <<<<par(a), par(b)>>>>

\* seg_pags returned for [a, b, break, break, a]: a and b together, the
\* last paragraph apart.
C4_Witness ==
    /\ SegReturned
    /\ Len(doc.elms) = 5
    /\ IsPar(doc.elms[1]) /\ IsPar(doc.elms[2]) /\ IsPar(doc.elms[5])
    /\ ~IsPar(doc.elms[3]) /\ ~IsPar(doc.elms[4])
    /\ Len(pags) = 2 /\ Len(pags[1]) = 2 /\ Len(pags[2]) = 1

\* C5: a document without paragraphs gives no page.
C5_NoParsNoPages ==
    (SegReturned /\ ParsOf(doc.elms) = <<>>) => pags = <<>>

\* seg_pags returned for a document of three page breaks.
C5_Witness ==
    /\ SegReturned
    /\ Len(doc.elms) = 3
    /\ ParsOf(doc.elms) = <<>>
    /\ pags = <<>>

\* C6: one more page break at the start, at the end or next to a page
\* break of the document leaves the pages of seg_pags as they are.
C6_BreaksAbsorbed ==
    SegReturned =>
        \A k \in 0..Len(doc.elms) :
            (\/ k = 0
             \/ k = Len(doc.elms)
             \/ ~IsPar(doc.elms[k])
             \/ ~IsPar(doc.elms[k + 1]))
            => seg_pags([doc EXCEPT !.elms = InsertBrk(@, k)]) = pags

\* seg_pags returned for a document with paragraphs on both sides of a
\* page break: a break can be added at the start, at the end and on both
\* sides of the break.
C6_Witness ==
    /\ SegReturned
    /\ Len(doc.elms) = 3
    /\ IsPar(doc.elms[1]) /\ ~IsPar(doc.elms[2]) /\ IsPar(doc.elms[3])
    /\ Len(pags) = 2

(***************************************************************************)
(* Attribute resolution (Doc::wrt_pag) and the paragraph setters.          *)
(***************************************************************************)
\* The override when it is set, the default of the document otherwise.
Resolved(override, default) == IF override # None THEN override[1] ELSE default

\* lay holds the paragraphs save_pdf painted so far, which are the first
\* paragraphs of the document: its k-th entry is of the k-th paragraph.
\* C7: every attribute a paragraph is laid out with is the paragraph's
\* override when set and the field of the rendered document otherwise;
\* the indent is used when the resolved first-line-indent flag is true.
C7_AttrsResolved ==
    \A k \in 1..Len(lay) :
        LET p == ParsOf(doc.elms)[k]
            r == lay[k]
        IN  /\ r.txt = p.txt
            /\ r.fnt_col = Resolved(p.fnt, doc.fnt)
            /\ r.family = Resolved(p.fnt, doc.fnt)
            /\ r.fnt_sze = Resolved(p.fnt_sze, doc.fnt_sze)
            /\ r.fnt_sty = Resolved(p.fnt_sty, doc.fnt_sty)
            /\ r.aln = Resolved(p.aln, doc.aln)
            /\ r.height = val(Resolved(p.spc_lne, doc.spc_lne))
            /\ r.spc_aft = Resolved(p.spc_aft, doc.spc_par_aft)
            /\ r.placeholder =
                  IF Resolved(p.has_ind, doc.has_ind)
                  THEN Some(pt(Resolved(p.ind, doc.ind)))
                  ELSE None

\* A paragraph was painted that overrides the font size and the indent
\* flag with values the document does not have, in a document whose
\* spacing after paragraphs is neither that of Doc::default() nor its line
\* spacing.
C7_Witness ==
    /\ Len(lay) = 1
    /\ doc.spc_par_aft = Double
    /\ doc.spc_lne # Double
    /\ lay[1].spc_aft = Double
    /\ ParsOf(doc.elms)[1].spc_aft = None
    /\ ParsOf(doc.elms)[1].fnt_sze = Some(10)
    /\ doc.fnt_sze = 12
    /\ ParsOf(doc.elms)[1].has_ind = Some(FALSE)
    /\ doc.has_ind
    /\ lay[1].placeholder = None

\* The argument of the last call of the setter of attribute a on the
\* paragraph being built; None when it was never called.
LastArg(a) == IF hist[a] = <<>> THEN None ELSE hist[a][Len(hist[a])]

\* C8: the override of every attribute of a paragraph is the argument of
\* the last call of its setter, so that after set_X(Some(v)) and
\* set_X(None) the paragraph is the one set_X was never called on, and
\* the attribute resolves to the default of the document.
C8_LastSetterWins ==
    bld # None =>
        LET p == bld[1]
        IN  /\ p.ind = LastArg("ind")
            /\ p.fnt = LastArg("fnt")
            /\ p.fnt_sze = LastArg("fnt_sze")
            /\ p.fnt_sty = LastArg("fnt_sty")
            /\ p.aln = LastArg("aln")
            /\ p.spc_lne = LastArg("spc_lne")
            /\ p.spc_aft = LastArg("spc_aft")
            /\ p.has_ind = LastArg("has_ind")
            /\ (\A a \in Attrs : LastArg(a) = None) => p = par(p.txt)
            /\ LastArg("ind") = None => par_ind(doc, p) = doc.ind
            /\ LastArg("fnt") = None => par_fnt(doc, p) = doc.fnt
            /\ LastArg("fnt_sze") = None => par_fnt_sze(doc, p) = doc.fnt_sze
            /\ LastArg("fnt_sty") = None => par_fnt_sty(doc, p) = doc.fnt_sty
            /\ LastArg("aln") = None => par_aln(doc, p) = doc.aln
            /\ LastArg("spc_lne") = None => par_spc_lne(doc, p) = doc.spc_lne
            /\ LastArg("spc_aft") = None
                  => par_spc_aft(doc, p) = doc.spc_par_aft
            /\ LastArg("has_ind") = None => par_has_ind(doc, p) = doc.has_ind

\* set_fnt(Some(v)) and then set_fnt(None) were called on the paragraph
\* being built, with v another font than the one of the document.
C8_Witness ==
    /\ bld # None
    /\ Len(hist["fnt"]) = 2
    /\ hist["fnt"][1] # None
    /\ hist["fnt"][1] # Some(doc.fnt)
    /\ hist["fnt"][2] = None
    /\ par_fnt(doc, bld[1]) = doc.fnt

(***************************************************************************)
(* Text substitution (Doc::replace_par_at).  A step that leaves            *)
(* call.op = "replace_par_at" is a call of replace_par_at with the         *)
(* arguments call.args = <<idx, from, to>>.                                *)
(***************************************************************************)
\* The places in txt where an occurrence of `from` is replaced: the
\* occurrences, from the left, that do not overlap a replaced one.
Replaced(txt, from) ==
    CHOOSE S \in SUBSET (1..(Len(txt) + 1)) :
        \A i \in 1..(Len(txt) + 1) :
            i \in S <=> /\ MatchAt(txt, from, i)
                        /\ \A j \in S : ~(j < i /\ i < j + Len(from))

\* txt from place i on, with `to` for every replaced occurrence.
RECURSIVE ReplacedFrom(_, _, _, _)
ReplacedFrom(txt, from, to, i) ==
    IF i > Len(txt) + 1 THEN <<>>
    ELSE (IF i \in Replaced(txt, from) THEN to ELSE <<>>)
         \o (IF \/ i > Len(txt)
                \/ \E j \in Replaced(txt, from) : j <= i /\ i < j + Len(from)
             THEN <<>> ELSE <<txt[i]>>)
         \o ReplacedFrom(txt, from, to, i + 1)

\* C9: replace_par_at on the index of a paragraph puts `to` for every
\* occurrence of `from` in the text of that paragraph (from the left,
\* without overlap) and changes nothing else of the document.
C9_ReplaceInPar ==
    [][(/\ call'.op = "replace_par_at"
        /\ call'.args[1] < Len(doc.elms)
        /\ IsPar(doc.elms[call'.args[1] + 1]))
       => LET i == call'.args[1] + 1
              from == call'.args[2]
              to == call'.args[3]
          IN  /\ doc' = [doc EXCEPT !.elms[i].par.txt =
                                        ReplacedFrom(@, from, to, 1)]
              /\ doc'.elms[i].par =
                    [doc.elms[i].par EXCEPT !.txt = doc'.elms[i].par.txt]
              /\ Len(doc'.elms) = Len(doc.elms)
              /\ \A k \in 1..Len(doc.elms) : k # i => doc'.elms[k] = doc.elms[k]
              /\ [doc' EXCEPT !.elms = <<>>] = [doc EXCEPT !.elms = <<>>]
              /\ (from # <<>> /\ Replaced(doc.elms[i].par.txt, from) = {})
                    => doc' = doc]_vars

\* replace_par_at(1, "a", "b") was called on a paragraph that overrides
\* the indent flag and has no "a" left, next to a paragraph that still
\* has one.
C9_Witness ==
    /\ call.op = "replace_par_at"
    /\ call.args = <<1, <<"a">>, <<"b">>>>
    /\ Len(doc.elms) = 2
    /\ IsPar(doc.elms[1]) /\ doc.elms[1].par.txt = <<"a">>
    /\ IsPar(doc.elms[2]) /\ doc.elms[2].par.txt = <<"b", "b">>
    /\ doc.elms[2].par.has_ind = Some(FALSE)

\* C10: replace_par_at on an index out of range or on the index of a page
\* break leaves the document as it is and returns without an error.
C10_ReplaceNoOp ==
    [][(/\ call'.op = "replace_par_at"
        /\ \/ call'.args[1] >= Len(doc.elms)
           \/ ~IsPar(doc.elms[call'.args[1] + 1]))
       => /\ doc' = doc
          /\ call'.res = "ok"]_vars

\* replace_par_at(0, "a", "b") was called on a document whose element 0
\* is a page break and whose element 1 is a paragraph with an "a".
C10_Witness ==
    /\ call.op = "replace_par_at"
    /\ call.args = <<0, <<"a">>, <<"b">>>>
    /\ Len(doc.elms) = 2
    /\ ~IsPar(doc.elms[1])
    /\ IsPar(doc.elms[2]) /\ doc.elms[2].par.txt = <<"a", "b", "a">>

(***************************************************************************)
(* Copies (Doc::copy_pars).  A step from "idle" to "idle" that leaves      *)
(* call.op = "copy_pars" is a call doc.copy_pars(other).                   *)
(***************************************************************************)
\* A document without its elements: its document-level attributes.
DocAttrs(d) == [d EXCEPT !.elms = <<>>]

\* C11: after dst.copy_pars(src) the elements of dst are the ones it had,
\* followed by all the elements of src in their order, page breaks as
\* well; the attributes of dst and the document src are as they were.
C11_CopyAppends ==
    [][(call'.op = "copy_pars" /\ pc = "idle" /\ pc' = "idle")
       => LET src == other[1]
              n == Len(doc.elms)
          IN  /\ Len(doc'.elms) = n + Len(src.elms)
              /\ \A i \in 1..n : doc'.elms[i] = doc.elms[i]
              /\ \A j \in 1..Len(src.elms) : doc'.elms[n + j] = src.elms[j]
              /\ DocAttrs(doc') = DocAttrs(doc)
              /\ other' = other]_vars

\* copy_pars was called on a document that had a page break, with a
\* document of other attributes that has a paragraph with an override.
C11_Witness ==
    /\ call.op = "copy_pars"
    /\ Len(doc.elms) = 2
    /\ doc.elms[1] = PagBrk
    /\ IsPar(doc.elms[2]) /\ doc.elms[2].par.fnt # None
    /\ other[1].elms = <<doc.elms[2]>>
    /\ DocAttrs(doc) # DocAttrs(other[1])

\* copy_pars was called with a document that has a page break.
C11_WitnessBrk ==
    /\ call.op = "copy_pars"
    /\ other[1].elms = <<ElmPar(par(<<"a">>)), PagBrk>>
    /\ doc.elms = other[1].elms

\* C18: a paragraph that copy_pars appended is laid out, for every
\* attribute it leaves unset, with the value of the document that is
\* rendered, and where the document it was copied from has another value,
\* not with that one.
C18_CopiedUseDstDefaults ==
    \A c \in cpy :
        (/\ IsPar(other[1].elms[c[2]])
         /\ ParRank(doc.elms, c[1]) <= Len(lay)) =>
            LET src == other[1]
                p == src.elms[c[2]].par
                r == lay[ParRank(doc.elms, c[1])]
                Dst(unset, got, dst, from) ==
                    unset => (got = dst /\ (dst # from => got # from))
            IN  /\ Dst(p.fnt = None, r.fnt_col, doc.fnt, src.fnt)
                /\ Dst(p.fnt = None, r.family, doc.fnt, src.fnt)
                /\ Dst(p.fnt_sze = None, r.fnt_sze, doc.fnt_sze, src.fnt_sze)
                /\ Dst(p.fnt_sty = None, r.fnt_sty, doc.fnt_sty, src.fnt_sty)
                /\ Dst(p.aln = None, r.aln, doc.aln, src.aln)
                /\ Dst(p.spc_lne = None, r.height,
                       val(doc.spc_lne), val(src.spc_lne))
                /\ Dst(p.spc_aft = None, r.spc_aft,
                       doc.spc_par_aft, src.spc_par_aft)
                /\ Dst(p.has_ind = None, r.placeholder # None,
                       doc.has_ind, src.has_ind)
                /\ Dst(p.ind = None /\ r.placeholder # None,
                       r.placeholder, Some(pt(doc.ind)), Some(pt(src.ind)))

\* A paragraph without overrides was copied from a document made by
\* new_ansi_letter() into one with another spacing after paragraphs, and
\* was laid out with the spacing of that one.
C18_Witness ==
    /\ other # None
    /\ cpy = {<<1, 1>>}
    /\ doc.elms = <<ElmPar(par(<<"a">>))>>
    /\ other[1].elms = doc.elms
    /\ other[1].spc_par_aft = Custom(135)
    /\ doc.spc_par_aft = Double
    /\ Len(lay) = 1
    /\ lay[1].spc_aft = Double

(***************************************************************************)
(* The render (Doc::save_pdf).  At pc = "ret" save_pdf is about to return  *)
(* call.res, and lay, pdf, loads and fnts are what it did and holds.       *)
(***************************************************************************)
FontErrors == {"FontLoadError", "FontParseError"}

\* The fonts create_fnt_col was called for and that are not in the cache:
\* the calls that failed.
FailedLoads == {i \in 1..Len(loads) : loads[i] \notin fnts}

\* The position in elms of its k-th paragraph.
ElmOfPar(elms, k) ==
    CHOOSE i \in 1..Len(elms) : IsPar(elms[i]) /\ ParRank(elms, i) = k

\* The number of page breaks among the first i elements that come after a
\* paragraph and so close a page.
ClosedBefore(elms, i) ==
    Cardinality({j \in 2..i : ~IsPar(elms[j]) /\ IsPar(elms[j - 1])})

\* save_pdf is about to return a font error: the paragraphs before the
\* one whose font failed are laid out and no other, the failed font was
\* asked for once and last, the page of the paragraph is the last one
\* begun, and the writer was not closed.
AbortedAtFont ==
    LET pars == ParsOf(doc.elms)
        n == Len(lay)
    IN  /\ n < Len(pars)
        /\ \A k \in 1..n : lay[k].txt = pars[k].txt
        /\ FailedLoads = {Len(loads)}
        /\ loads[Len(loads)] = Resolved(pars[n + 1].fnt, doc.fnt)
        /\ \A i \in 1..(Len(loads) - 1) : loads[i] # loads[Len(loads)]
        /\ Cardinality({i \in 1..Len(pdf) : pdf[i] = "begin_page"})
              = ClosedBefore(doc.elms, ElmOfPar(doc.elms, n + 1)) + 1
        /\ \A i \in 1..Len(pdf) : pdf[i] # "close"

\* C13: when the font of a paragraph cannot be loaded or parsed, save_pdf
\* stops at that paragraph and returns the font error: no later paragraph
\* is laid out and no later page begun, the font is not asked for again,
\* and save_pdf does not go on after a failed load.
C13_FontErrorAborts ==
    [][/\ (pc' = "ret" /\ call'.res \in FontErrors) => AbortedAtFont'
       /\ (pc' = "pages" \/ (pc' = "ret" /\ call'.res \notin FontErrors))
             => FailedLoads' = {}
       /\ (pc = "ret" /\ call.res \in FontErrors)
             => /\ pc' = "done"
                /\ call' = call
                /\ file' = file]_vars

\* save_pdf is about to return a font error for the second paragraph of
\* the first page of a document of two pages: its font failed, the font
\* of the first paragraph was loaded.
C13_Witness ==
    /\ pc = "ret"
    /\ call.res \in FontErrors
    /\ Len(doc.elms) = 4
    /\ IsPar(doc.elms[1]) /\ IsPar(doc.elms[2]) /\ IsPar(doc.elms[4])
    /\ doc.elms[3] = PagBrk
    /\ Len(lay) = 1
    /\ loads = <<"DomineVariable", "Roboto">>
    /\ fnts = {"DomineVariable"}
    /\ pdf = <<"begin_page">>

\* C14: a save_pdf that returns an error, whatever step failed, has
\* produced no file: the file is as it was before the call.
C14_NoFileOnError ==
    [][(pc = "pages" /\ pc' = "ret" /\ call'.res # "ok") => file' = file]_vars

\* save_pdf is about to return a file error with the file created and
\* not written to its end.
C14_PartialFile ==
    /\ pc = "ret"
    /\ call.res = "FileError"
    /\ file = "partial"
    /\ lay # <<>>
    /\ pdf = <<"begin_page", "end_page", "close">>

\* The positions in elms of the paragraphs before position i with no page
\* break between them and position i.
SamePageBefore(elms, i) ==
    {j \in 1..(i - 1) : \A m \in j..(i - 1) : IsPar(elms[m])}

\* What the cursor moves by for paragraph p of document d: the height of
\* its first line times its resolved spacing after the paragraph, and the
\* height of its block.
Advance(d, p) ==
    LET fnt_sze == Resolved(p.fnt_sze, d.fnt_sze)
        height == val(Resolved(p.spc_lne, d.spc_lne))
        aft == val(Resolved(p.spc_aft, d.spc_par_aft))
    IN  (line_height(fnt_sze, height) * aft) \div 100
        + par_height(fnt_sze, height, p.txt)

RECURSIVE SumAdvance(_, _)
SumAdvance(d, S) ==
    IF S = {} THEN 0
    ELSE LET j == CHOOSE x \in S : TRUE
         IN  Advance(d, d.elms[j].par) + SumAdvance(d, S \ {j})

\* C15: every paragraph is painted at the top margin plus, for every
\* paragraph before it on its page, the height of the first line of that
\* paragraph times its resolved spacing after the paragraph and the
\* height of its block; the paragraphs of the pages before count for
\* nothing, so that the first paragraph of every page is at the top margin.
C15_CursorPerPage ==
    \A k \in 1..Len(lay) :
        LET i == ElmOfPar(doc.elms, k)
        IN  /\ lay[k].y = pt(doc.mrg.top) * 100
                          + SumAdvance(doc, SamePageBefore(doc.elms, i))
            /\ (i = 1 \/ ~IsPar(doc.elms[i - 1]))
                  => lay[k].y = pt(doc.mrg.top) * 100

\* The three paragraphs of [a, ab, break, a] were painted: the first
\* with a spacing of its own, the second below it, the third at the top
\* margin of its page.
C15_Witness ==
    /\ Len(doc.elms) = 4
    /\ IsPar(doc.elms[1]) /\ IsPar(doc.elms[2]) /\ IsPar(doc.elms[4])
    /\ doc.elms[3] = PagBrk
    /\ doc.elms[1].par.spc_aft = Some(Double)
    /\ doc.elms[2].par.txt = <<"a", "b">>
    /\ Len(lay) = 3
    /\ lay[1].y = 7200
    /\ lay[2].y = 7200 + 3240 + 1620
    /\ lay[3].y = 7200

\* The fonts create_fnt_col was called for.
LoadedFonts == {loads[i] : i \in 1..Len(loads)}

\* C16: in one save_pdf no font is asked for twice, over all paragraphs and
\* pages: the font of every paragraph laid out is in the cache, and the
\* cache holds the fonts this save_pdf asked for and no other, none at its
\* start.
C16_FontLoadedOnce ==
    /\ \A i, j \in 1..Len(loads) : i # j => loads[i] # loads[j]
    /\ \A k \in 1..Len(lay) : lay[k].fnt_col \in fnts
    /\ fnts \subseteq LoadedFonts
    /\ (pc = "pages" /\ pdf = <<>>) => (fnts = {} /\ loads = <<>>)
    /\ pc \in {"idle", "done"} => (fnts = {} /\ loads = <<>>)

\* In a render after the first one, three paragraphs on two pages were
\* laid out, the first and the third in one font and the second in
\* another: each of the two fonts was asked for once, in this render.
C16_Witness ==
    /\ file = "complete"
    /\ pc = "pages"
    /\ Len(lay) = 3
    /\ lay[1].fnt_col = lay[3].fnt_col
    /\ lay[2].fnt_col # lay[1].fnt_col
    /\ Len(pdf) = 4
    /\ loads = <<lay[1].fnt_col, lay[2].fnt_col>>

\* n pages begun and ended in turn.
RECURSIVE PagesWritten(_)
PagesWritten(n) ==
    IF n = 0 THEN <<>>
    ELSE PagesWritten(n - 1) \o <<"begin_page", "end_page">>

\* The pages of the document: the paragraphs that begin one.
NumPages(elms) ==
    Cardinality({i \in 1..Len(elms) :
                    IsPar(elms[i]) /\ (i = 1 \/ ~IsPar(elms[i - 1]))})

\* C17 as it is stated: every save_pdf, also one that ends in a font
\* error, has begun and ended every page of the document and closed the
\* writer when it returns, and no page is begun and not ended.
C17_Protocol ==
    pc = "ret" => pdf = Append(PagesWritten(NumPages(doc.elms)), "close")

\* C17, amended: a save_pdf that meets no font error begins and ends one
\* page for every page of the document, one after the other, and closes
\* the writer after the last page and before it creates the file; a
\* save_pdf that ends in a font error has begun and ended the pages before
\* the one of the error, has begun that page and not ended it, and has
\* neither closed the writer nor touched the file.
C17_ProtocolUnlessFontError ==
    [][/\ pc' = "pages"
             => \E n \in 0..NumPages(doc'.elms) : pdf' = PagesWritten(n)
       /\ (pc' = "ret" /\ call'.res \notin FontErrors)
             => pdf' = Append(PagesWritten(NumPages(doc'.elms)), "close")
       /\ (pc' = "ret" /\ call'.res \in FontErrors)
             => \E n \in 0..(NumPages(doc'.elms) - 1) :
                   pdf' = Append(PagesWritten(n), "begin_page")
       /\ file' # file
             => /\ pdf = PagesWritten(NumPages(doc.elms))
                /\ pdf' = Append(pdf, "close")
                /\ call'.res \notin FontErrors]_vars

\* save_pdf is about to return a font error met on the second of two
\* pages: the first page was begun and ended, the second was begun.
C17_Witness ==
    /\ pc = "ret"
    /\ call.res \in FontErrors
    /\ NumPages(doc.elms) = 2
    /\ pdf = <<"begin_page", "end_page", "begin_page">>
    /\ file = "absent"

\* save_pdf is about to return without an error for a document of two
\* pages.
C17_WitnessClosed ==
    /\ pc = "ret"
    /\ call.res = "ok"
    /\ NumPages(doc.elms) = 2
    /\ pdf = <<"begin_page", "end_page", "begin_page", "end_page", "close">>
    /\ file = "complete"

(***************************************************************************)
(* Persistence (Doc::save_json, Doc::read_json).  A step from a state      *)
(* with call.op = "save_json" and call.res = "ok" to one with              *)
(* call.op = "read_json" reads the file save_json wrote for doc.           *)
(***************************************************************************)
\* The keys written for the i-th element of the document in the file.
KeysOfPar(i) == DOMAIN json[1].v["elms"].v[i].v["Par"].v

\* read_json gives doc' for the file written for doc: the document is
\* read, with the attributes and the elements of doc, every paragraph with
\* the text and the overrides of the one of doc, set where that one has
\* them set; in the file the unset overrides have no key.
RoundTrip ==
    /\ call'.res = "ok"
    /\ DocAttrs(doc') = DocAttrs(doc)
    /\ Len(doc'.elms) = Len(doc.elms)
    /\ \A i \in 1..Len(doc.elms) :
          /\ doc'.elms[i].kind = doc.elms[i].kind
          /\ IsPar(doc.elms[i]) =>
                /\ doc'.elms[i].par.txt = doc.elms[i].par.txt
                /\ \A a \in Attrs :
                      /\ doc'.elms[i].par[a] = None
                            <=> doc.elms[i].par[a] = None
                      /\ doc'.elms[i].par[a] = doc.elms[i].par[a]
                      /\ doc.elms[i].par[a] = None => a \notin KeysOfPar(i)

\* No number of the document is other than finite.
Finite(d) ==
    /\ is_finite(d.fnt_sze)
    /\ \A i \in 1..Len(d.elms) :
          IsPar(d.elms[i]) => d.elms[i].par.fnt_sze # Some(INFINITY)

\* A step of read_json that opens the file save_json has just written.
ReadsSaved ==
    /\ call.op = "save_json"
    /\ call.res = "ok"
    /\ call'.op = "read_json"
    /\ call'.res # "FileError"

\* C12: a document saved by save_json and read by read_json is read as
\* it was: equal in every field of the document and in the elements, with
\* every override of a paragraph set if and only if it was set, to the
\* same value; unset overrides are left out of the file.
C12_RoundTrip == [][ReadsSaved => RoundTrip]_vars

\* The round trip of the documents whose numbers are finite.
C12_FiniteRoundTrip == [][(ReadsSaved /\ Finite(doc)) => RoundTrip]_vars

\* read_json returned a document for a file that has a page break and a
\* paragraph with a key for the font size (set to infinity, written as
\* null): in the document the font size of the paragraph is unset.
C12_LostOverride ==
    /\ call.op = "read_json"
    /\ call.res = "ok"
    /\ Len(doc.elms) = 2
    /\ doc.elms[1] = PagBrk
    /\ IsPar(doc.elms[2])
    /\ doc.elms[2].par.fnt_sze = None
    /\ "fnt_sze" \in KeysOfPar(2)

====
